---- MODULE Spec2Model ----
(***************************************************************************)
(* Clementine's playback orchestrator, Player (src/core/player.cpp), as a  *)
(* state machine.  Every slot of Player is one action; the slots it calls  *)
(* (PlayAt, HandleSpecialLoad, NextItem, Stop, SetVolume, Seek) are        *)
(* operators on a record of the player's, the playlist's and the engine's  *)
(* state, so an action is the whole handler.                               *)
(*                                                                         *)
(* The playlist has rows 0..Len(items)-1; row i has the locator i+1 and    *)
(* the option set items[i+1].  An empty QUrl is 0, a resolved media        *)
(* locator of the item locator L is -L.                                    *)
(***************************************************************************)
EXTENDS Integers, Sequences, FiniteSets, TLC

VARIABLES
  items,                \* the active playlist's rows: a sequence of option sets
  current_index,        \* playlists_->active()->current_index()
  stop_after,           \* the row the playlist stops after, -1 for none
  scrobbled,            \* the playlist's scrobbled flag of the current track
  current_item,         \* Player::current_item_ : a row, or Null
  loading_async,        \* Player::loading_async_ : a locator, or NoUrl
  stream_change_type,   \* Player::stream_change_type_
  volume_before_mute,   \* Player::volume_before_mute_
  engine_state,         \* engine_->state()
  engine_volume,        \* engine_->volume()
  settings_volume,      \* settings_ "Player/volume"
  pending,              \* locator -> number of asynchronous loads not yet answered
  queued,               \* TrackAboutToEnd events the engine has emitted and the
                        \*   control thread has not processed yet
  latest,               \* history: locator -> its most recent load answered
                        \*   WillLoadAsynchronously and has no result yet
  prev_since,           \* history: locators whose pending load saw a Previous() at its item
  requested,            \* history: locator -> the change type recorded by the last call
                        \*   that asked for a load of it, while an asynchronous load of it
                        \*   is outstanding; "Preload" for a load TrackAboutToEnd made,
                        \*   which records none; "" without an outstanding load
  mute_trip,            \* history: progress of a SetVolume(v), Mute(), Mute() sequence
  step,                 \* history: the last operation and what it was called with
  out                   \* history: the calls and signals the last operation made, in order

vars == <<items, current_index, stop_after, scrobbled, current_item, loading_async,
          stream_change_type, volume_before_mute, engine_state, engine_volume,
          settings_volume, pending, queued, latest, prev_since, requested, mute_trip,
          step, out>>

navVars == <<items, current_index, stop_after, scrobbled, current_item, loading_async,
             stream_change_type, engine_state, pending, queued, latest, prev_since,
             requested>>

volVars == <<volume_before_mute, engine_volume, settings_volume, mute_trip>>

----------------------------------------------------------------------------
(* Bounds of the model *)

\* rows of the playlist
MaxRows == 2
\* asynchronous loads of one locator that may be outstanding at once
MaxPending == 1
\* item loads, and next_index() queries, one handler may chain through
MaxChain == 1
\* TrackAboutToEnd events that may wait for the control thread at once
MaxQueued == 1
\* how far beyond 0..100 the arguments of SetVolume range
VolMargin == 5

----------------------------------------------------------------------------
(* Program constants *)

NoIndex == -1
Null == -1
NoUrl == 0
MinVolume == 0
MaxVolume == 100
DefaultVolume == 50
MsecPerSec == 1000

ChangeTypes == {"First", "Auto", "Manual"}
EngineStates == {"Empty", "Idle", "Playing", "Paused"}
LoadTypes == {"NoMoreTracks", "TrackAvailable", "WillLoadAsynchronously"}

\* PlaylistItem::Options as the orchestrator reads them
ItemKinds == { {}, {"SpecialPlayBehaviour"}, {"ContainsMultipleTracks"},
               {"SpecialPlayBehaviour", "ContainsMultipleTracks"},
               {"SpecialPlayBehaviour", "ContainsMultipleTracks", "PauseDisabled"} }

Playlists == UNION { [1..n -> ItemKinds] : n \in 0..MaxRows }

\* PauseDisabled is read by PlayPause alone: the playlists of the
\* specifications without PlayPause leave it out
NavKinds == { k \in ItemKinds : "PauseDisabled" \notin k }
NavPlaylists == UNION { [1..n -> NavKinds] : n \in 0..MaxRows }

\* ContainsMultipleTracks is read by NextInternal and TrackAboutToEnd alone: the
\* playlists of the specification without them have it on one kind only
TransportKinds == { k \in ItemKinds : "ContainsMultipleTracks" \in k => "PauseDisabled" \in k }
TransportPlaylists == UNION { [1..n -> TransportKinds] : n \in 0..MaxRows }

\* A plain item and a stream with every option: between them the handlers take
\* each of their branches on the options
EventKinds == { k \in ItemKinds : k = {} \/ "PauseDisabled" \in k }
EventPlaylists == UNION { [1..n -> EventKinds] : n \in 0..MaxRows }

Rows(s) == 0..(Len(s.items) - 1)
Url(i) == i + 1
Media(url) == 0 - url
Options(s, i) == s.items[i + 1]
Locators == 1..MaxRows

----------------------------------------------------------------------------
(* The state a handler works on, and the answers its collaborators give it. *)

\* The handlers are operators on this record; nl and nn count the item loads
\* and next_index() queries made so far by the running handler, res is the
\* SpecialLoadResult of its last item load, ok says that the answers drawn for
\* it were all within the bounds.
St == [items |-> items, idx |-> current_index, stop |-> stop_after,
       scrob |-> scrobbled, cur |-> current_item, tok |-> loading_async,
       sct |-> stream_change_type, eng |-> engine_state, pend |-> pending,
       latest |-> latest, req |-> requested, q |-> queued,
       out |-> <<>>, nl |-> 0, nn |-> 0, ok |-> TRUE,
       res |-> [type |-> "TrackAvailable", original_url |-> NoUrl, media_url |-> NoUrl]]

\* What the playlist and its items answer to one handler: the result type of
\* its k-th item load, the value of its k-th next_index() query and the value
\* of last_played_index().
Answers(n) == [load : [1..MaxChain -> LoadTypes],
               next : [1..MaxChain -> (-1)..(n - 1)],
               last : (-1)..(n - 1)]

Emit(s, e) == [s EXCEPT !.out = Append(@, e)]

----------------------------------------------------------------------------
(* The engine (EngineBase), as far as the orchestrator calls it *)

EnginePlay(s, url, change) ==
  [Emit(s, <<"Play", url, change>>) EXCEPT !.eng = "Playing"]

EngineStop(s) == [Emit(s, <<"Stop">>) EXCEPT !.eng = "Empty"]

EnginePause(s) == [Emit(s, <<"Pause">>) EXCEPT !.eng = "Paused"]

EngineUnpause(s) == [Emit(s, <<"Unpause">>) EXCEPT !.eng = "Playing"]

----------------------------------------------------------------------------
(* The playlist (Playlist), as far as the orchestrator calls it *)

\* set_current_index: the cursor moves; the scrobbled flag belongs to the
\* track at the cursor, so a move starts it afresh
set_current_index(s, i) ==
  [s EXCEPT !.idx = i, !.scrob = IF i = s.idx THEN @ ELSE FALSE]

\* current_item(): the item at the cursor, null without one
playlist_current_item(s) == IF s.idx = NoIndex THEN Null ELSE s.idx

stop_after_current(s) == s.stop # NoIndex /\ s.idx # NoIndex /\ s.stop = s.idx

StopAfter(s, i) == [s EXCEPT !.stop = i]

\* next_index(): decided by the playlist's shuffle and repeat mode; the
\* handler's next query is answered by next_value
next_value(s, o) == IF s.nn >= MaxChain THEN NoIndex ELSE o.next[s.nn + 1]

next_index(s) ==
  IF s.nn >= MaxChain THEN [s EXCEPT !.ok = FALSE] ELSE [s EXCEPT !.nn = @ + 1]

\* StartLoading() / LoadNext() of the item at row i: one SpecialLoadResult.
\* The call is recorded with its result type and with the number of loads
\* of the same locator that were still unanswered when it was made.
ItemLoad(s, o, i, which) ==
  IF s.nl >= MaxChain
  THEN [s EXCEPT !.ok = FALSE,
                 !.res = [type |-> "TrackAvailable", original_url |-> Url(i),
                          media_url |-> Media(Url(i))]]
  ELSE LET type == o.load[s.nl + 1]
           async == type = "WillLoadAsynchronously"
       IN [Emit(s, <<which, Url(i), type, s.pend[Url(i)]>>) EXCEPT
             !.nl = @ + 1,
             !.ok = @ /\ (async => s.pend[Url(i)] < MaxPending),
             !.pend[Url(i)] = IF async /\ @ < MaxPending THEN @ + 1 ELSE @,
             !.latest[Url(i)] = async,
             !.req[Url(i)] = IF async \/ s.pend[Url(i)] > 0 THEN s.sct ELSE @,
             !.res = [type |-> type, original_url |-> Url(i),
                      media_url |-> Media(Url(i))]]

----------------------------------------------------------------------------
(* Player's handlers                                                       *)

RECURSIVE HandleSpecialLoad(_, _, _), NextItem(_, _, _), PlayAt(_, _, _, _, _)

\* Stop without current_item_.reset()
Stop_KeepsItem(s) == set_current_index(EngineStop(s), NoIndex)

\* Player::Stop
Stop(s) ==
  LET s1 == EngineStop(s)
      s2 == set_current_index(s1, NoIndex)
  IN [s2 EXCEPT !.cur = Null]

\* HandleSpecialLoad without the comparison of the locators
HandleSpecialLoad_AnyItem(s, o, result) ==
  CASE result.type = "NoMoreTracks" ->
         NextItem([s EXCEPT !.tok = NoUrl], o, "Auto")
    [] result.type = "TrackAvailable" ->
         IF s.idx = NoIndex THEN s
         ELSE [EnginePlay(s, result.media_url, s.sct) EXCEPT
                 !.cur = s.idx, !.tok = NoUrl]
    [] result.type = "WillLoadAsynchronously" ->
         [s EXCEPT !.tok = result.original_url]

\* Player::HandleSpecialLoad
HandleSpecialLoad(s, o, result) ==
  CASE result.type = "NoMoreTracks" ->
         NextItem([s EXCEPT !.tok = NoUrl], o, "Auto")
    [] result.type = "TrackAvailable" ->
         \* Might've been an async load, so check we're still on the same item
         IF s.idx = NoIndex THEN s
         ELSE IF Url(s.idx) # result.original_url THEN s
         ELSE [EnginePlay(s, result.media_url, s.sct) EXCEPT
                 !.cur = s.idx, !.tok = NoUrl]
    [] result.type = "WillLoadAsynchronously" ->
         [s EXCEPT !.tok = result.original_url]

\* Player::NextItem
NextItem(s, o, change) ==
  LET i == next_value(s, o)
      s1 == Emit(next_index(s), <<"NextItem", change, i>>)
  IN IF i = NoIndex
     THEN Stop(Emit(set_current_index(s1, i), <<"PlaylistFinished">>))
     ELSE PlayAt(s1, o, i, change, FALSE)

\* PlayAt without the "It's already loading" return
PlayAt_NoGuard(s, o, index, change, reshuffle) ==
  LET s1 == IF reshuffle THEN set_current_index(s, NoIndex) ELSE s
      s2 == set_current_index(s1, index)
      s3 == [s2 EXCEPT !.cur = playlist_current_item(s2)]
  IN IF "SpecialPlayBehaviour" \in Options(s3, s3.cur)
     THEN LET s4 == ItemLoad([s3 EXCEPT !.sct = change], o, s3.cur, "StartLoading")
          IN HandleSpecialLoad(s4, o, s4.res)
     ELSE EnginePlay([s3 EXCEPT !.tok = NoUrl], Url(s3.cur), change)

\* Player::PlayAt
PlayAt(s, o, index, change, reshuffle) ==
  LET s1 == IF reshuffle THEN set_current_index(s, NoIndex) ELSE s
      s2 == set_current_index(s1, index)
      s3 == [s2 EXCEPT !.cur = playlist_current_item(s2)]
  IN IF "SpecialPlayBehaviour" \in Options(s3, s3.cur)
     THEN \* It's already loading
          IF Url(s3.cur) = s3.tok THEN s3
          ELSE LET s4 == ItemLoad([s3 EXCEPT !.sct = change], o, s3.cur, "StartLoading")
               IN HandleSpecialLoad(s4, o, s4.res)
     ELSE \* lastfm_->NowPlaying() goes to the scrobbler and changes nothing here
          EnginePlay([s3 EXCEPT !.tok = NoUrl], Url(s3.cur), change)

\* NextInternal without the stop_after_current() branch
NextInternal_NoStopAfter(s, o, change) ==
  LET s1 == IF change = "Manual" THEN Emit(s, <<"TrackSkipped", s.cur>>) ELSE s
      item == playlist_current_item(s1)
  IN IF item # Null /\ "ContainsMultipleTracks" \in Options(s1, item)
     THEN IF Url(item) = s1.tok THEN s1
          ELSE LET s2 == ItemLoad([s1 EXCEPT !.sct = change], o, item, "LoadNext")
               IN HandleSpecialLoad(s2, o, s2.res)
     ELSE NextItem(s1, o, change)

\* Player::NextInternal
NextInternal(s, o, change) ==
  LET s1 == IF change = "Manual" THEN Emit(s, <<"TrackSkipped", s.cur>>) ELSE s
      item == playlist_current_item(s1)
  IN IF stop_after_current(s1) THEN Stop(StopAfter(s1, NoIndex))
     ELSE IF item # Null /\ "ContainsMultipleTracks" \in Options(s1, item)
     THEN \* The next track is already being loaded
          IF Url(item) = s1.tok THEN s1
          ELSE LET s2 == ItemLoad([s1 EXCEPT !.sct = change], o, item, "LoadNext")
               IN HandleSpecialLoad(s2, o, s2.res)
     ELSE NextItem(s1, o, change)

\* Player::TrackEnded
TrackEnded(s, o) ==
  IF stop_after_current(s) THEN Stop(StopAfter(s, NoIndex))
  ELSE NextInternal(s, o, "Auto")

\* Previous that stops the engine alone when there is no previous row
Previous_KeepsItem(s, o, i) ==
  LET s1 == set_current_index(s, i)
  IN IF i = NoIndex THEN EngineStop(s1) ELSE PlayAt(s1, o, i, "Manual", FALSE)

\* Player::Previous
Previous(s, o, i) ==
  LET s1 == set_current_index(s, i)
  IN IF i = NoIndex THEN Stop(s1) ELSE PlayAt(s1, o, i, "Manual", FALSE)

\* PlayPause that starts at row 0 whatever last_played_index() is
PlayPause_IgnoresLastPlayed(s, o) ==
  CASE s.eng = "Paused" -> EngineUnpause(s)
    [] s.eng = "Playing" ->
         IF s.cur = Null THEN Emit(s, <<"NullDeref">>)
         ELSE IF "PauseDisabled" \in Options(s, s.cur) THEN EngineStop(s)
         ELSE EnginePause(s)
    [] s.eng \in {"Empty", "Idle"} ->
         IF Len(s.items) = 0 THEN s
         ELSE LET i1 == s.idx
                  s1 == IF i1 = NoIndex THEN Emit(s, <<"last_played_index", o.last>>) ELSE s
              IN PlayAt(s1, o, IF i1 = NoIndex THEN 0 ELSE i1, "First", TRUE)

\* Player::PlayPause
PlayPause(s, o) ==
  CASE s.eng = "Paused" -> EngineUnpause(s)
    [] s.eng = "Playing" ->
         \* current_item_ is read without a check
         IF s.cur = Null THEN Emit(s, <<"NullDeref">>)
         ELSE IF "PauseDisabled" \in Options(s, s.cur) THEN EngineStop(s)
         ELSE EnginePause(s)
    [] s.eng \in {"Empty", "Idle"} ->
         IF Len(s.items) = 0 THEN s
         ELSE LET i1 == s.idx
                  i2 == IF i1 = NoIndex THEN o.last ELSE i1
                  i3 == IF i2 = NoIndex THEN 0 ELSE i2
                  s1 == IF i1 = NoIndex THEN Emit(s, <<"last_played_index", i2>>) ELSE s
              IN PlayAt(s1, o, i3, "First", TRUE)

\* Player::Pause
Pause(s) ==
  CASE s.eng = "Playing" -> EnginePause(s)
    [] s.eng = "Paused" -> EngineUnpause(s)
    [] OTHER -> s

\* seconds * 1000 in int: the low 32 bits of the product, read as a signed
\* number, computed in 16-bit halves so that no intermediate value leaves the
\* range of int
Half == 65536
MulInt32(a, b) ==
  LET hi == a \div Half
      lo == a % Half
      c == (lo * b) \div Half
      d == (lo * b) % Half
      u == (hi * b + c) % Half
      us == IF u >= Half \div 2 THEN u - Half ELSE u
  IN us * Half + d

\* qBound(min, val, max) == qMax(min, qMin(max, val))
qMin(a, b) == IF a < b THEN a ELSE b
qMax(a, b) == IF a < b THEN b ELSE a
qBound(min, val, max) == qMax(min, qMin(max, val))

\* Seek without set_scrobbled(true)
Seek_NoScrobble(s, seconds, length) ==
  Emit(s, <<"Seek", qBound(0, MulInt32(seconds, MsecPerSec), length)>>)

\* Player::Seek, with int(engine_->length()) == length
Seek(s, seconds, length) ==
  LET msec == qBound(0, MulInt32(seconds, MsecPerSec), length)
  IN [Emit(s, <<"Seek", msec>>) EXCEPT !.scrob = TRUE]

\* Player::Play
Play(s, o, length) ==
  CASE s.eng = "Playing" -> Seek(s, 0, length)
    [] s.eng = "Paused" -> EngineUnpause(s)
    [] OTHER -> PlayPause(s, o)

\* TrackAboutToEnd that preloads the next item's locator whatever LoadNext answers
TrackAboutToEnd_AlwaysPreloads(s, o, crossfade) ==
  IF crossfade THEN NextInternal(s, o, "Auto")
  ELSE IF s.cur = Null THEN Emit(s, <<"NullDeref">>)
  ELSE IF "ContainsMultipleTracks" \in Options(s, s.cur) THEN s
  ELSE LET i == next_value(s, o)
           s1 == Emit(next_index(s), <<"next_index", i>>)
       IN IF i = NoIndex THEN s1
          ELSE IF "ContainsMultipleTracks" \in Options(s1, i)
          THEN Emit(ItemLoad(s1, o, i, "LoadNext"), <<"StartPreloading", Url(i)>>)
          ELSE Emit(s1, <<"StartPreloading", Url(i)>>)

\* Player::TrackAboutToEnd, with engine_->is_autocrossfade_enabled() == crossfade
TrackAboutToEnd(s, o, crossfade) ==
  IF crossfade THEN NextInternal(s, o, "Auto")
  ELSE IF s.cur = Null THEN Emit(s, <<"NullDeref">>)
  ELSE IF "ContainsMultipleTracks" \in Options(s, s.cur) THEN s
  ELSE LET i == next_value(s, o)
           s1 == Emit(next_index(s), <<"next_index", i>>)
       IN IF i = NoIndex THEN s1
          ELSE IF "ContainsMultipleTracks" \in Options(s1, i)
          THEN LET s2 == ItemLoad(s1, o, i, "LoadNext")
               IN CASE s2.res.type = "NoMoreTracks" -> s2
                    [] s2.res.type = "WillLoadAsynchronously" ->
                         [s2 EXCEPT !.tok = Url(i),
                                    !.req[Url(i)] = "Preload"]
                    [] s2.res.type = "TrackAvailable" ->
                         Emit(s2, <<"StartPreloading", s2.res.media_url>>)
          ELSE Emit(s1, <<"StartPreloading", Url(i)>>)

----------------------------------------------------------------------------
(* Volume *)

Vol == [engine |-> engine_volume, settings |-> settings_volume,
        before_mute |-> volume_before_mute, out |-> <<>>]

\* SetVolume without qBound
SetVolume_Unbounded(v, value) ==
  LET v1 == [v EXCEPT !.settings = value, !.engine = value]
  IN IF value # v.engine
     THEN [v1 EXCEPT !.out = Append(@, <<"VolumeChanged", value>>)]
     ELSE v1

\* SetVolume that emits VolumeChanged on every call
SetVolume_AlwaysEmits(v, value) ==
  LET volume == qBound(MinVolume, value, MaxVolume)
  IN [v EXCEPT !.settings = volume, !.engine = volume,
               !.out = Append(@, <<"VolumeChanged", volume>>)]

\* Player::SetVolume
SetVolume(v, value) ==
  LET old_volume == v.engine
      volume == qBound(MinVolume, value, MaxVolume)
      v1 == [v EXCEPT !.settings = volume, !.engine = volume]
  IN IF volume # old_volume
     THEN [v1 EXCEPT !.out = Append(@, <<"VolumeChanged", volume>>)]
     ELSE v1

\* Mute without volume_before_mute_ = current_volume
Mute_NoCache(v) ==
  IF v.engine = 0 THEN SetVolume(v, v.before_mute) ELSE SetVolume(v, 0)

\* Mute that caches the current volume before it tests it
Mute_CachesAlways(v) ==
  LET current_volume == v.engine
      v1 == [v EXCEPT !.before_mute = current_volume]
  IN IF current_volume = 0 THEN SetVolume(v1, v1.before_mute)
     ELSE SetVolume(v1, 0)

\* Player::Mute
Mute(v) ==
  LET current_volume == v.engine
  IN IF current_volume = 0 THEN SetVolume(v, v.before_mute)
     ELSE SetVolume([v EXCEPT !.before_mute = current_volume], 0)

----------------------------------------------------------------------------
(* Stream metadata.  A QString is a sequence of characters. *)

\* characters of the titles and artists of a bundle
Chars == {"a", "b", " ", "-"}
\* longest title of a bundle
MaxTitle == 3

Strings(n) == UNION { [1..k -> Chars] : k \in 0..n }

\* QString::indexOf(c), from 0, -1 without an occurrence
indexOf(str, c) ==
  IF \E k \in 1..Len(str) : str[k] = c
  THEN (CHOOSE k \in 1..Len(str) : str[k] = c /\ \A j \in 1..(k - 1) : str[j] # c) - 1
  ELSE -1

\* QString::left(n), QString::mid(pos)
left(str, n) == SubSeq(str, 1, n)
mid(str, pos) == SubSeq(str, pos + 1, Len(str))

\* QString::trimmed(): without the whitespace at its start and its end
RECURSIVE trimmed(_)
trimmed(str) ==
  IF str = <<>> THEN str
  ELSE IF Head(str) = " " THEN trimmed(Tail(str))
  ELSE IF str[Len(str)] = " " THEN trimmed(SubSeq(str, 1, Len(str) - 1))
  ELSE str

\* Song::MergeFromSimpleMetaBundle: the fields the bundle has replace the song's
MergeFromSimpleMetaBundle(song, bundle) ==
  [artist |-> IF bundle.artist # <<>> THEN bundle.artist ELSE song.artist,
   title |-> IF bundle.title # <<>> THEN bundle.title ELSE song.title]

\* Player::EngineMetadataReceived, with swap saying that the item's locator has
\* the host somafm.com or the fragment icecast, and metadata == item->Metadata()
EngineMetadataReceived(s, bundle, swap, metadata) ==
  LET item == playlist_current_item(s)
      dash_pos == indexOf(bundle.title, "-")
      split == IF dash_pos # -1 /\ bundle.artist = <<>>
               THEN [artist |-> trimmed(mid(bundle.title, dash_pos + 1)),
                     title |-> trimmed(left(bundle.title, dash_pos))]
               ELSE bundle
      bundle_copy == IF swap THEN [artist |-> split.title, title |-> split.artist]
                     ELSE split
      song == MergeFromSimpleMetaBundle(metadata, bundle_copy)
  IN IF item = Null THEN s
     ELSE IF song.title = <<>> /\ song.artist = <<>> THEN s
     ELSE Emit(s, <<"SetStreamMetadata", Url(item), song>>)

----------------------------------------------------------------------------
(* The state machine *)

N == Len(items)

\* The results of one run of the handler H, over the answers its
\* collaborators may give it: the answers are drawn as the handler asks for
\* them, the first kl loads and kn next_index() queries of o being drawn
\* already.  A run that asks for more than the bounds allow has no result.
NoAnswers(last) == [load |-> [k \in 1..MaxChain |-> "TrackAvailable"],
                    next |-> [k \in 1..MaxChain |-> NoIndex],
                    last |-> last]

RECURSIVE Explore(_, _, _, _)
Explore(H(_), o, kl, kn) ==
  UNION { IF r.nl > kl
          THEN UNION { Explore(H, [o EXCEPT !.load[kl + 1] = t], kl + 1, kn) : t \in LoadTypes }
          ELSE IF r.nn > kn
          THEN UNION { Explore(H, [o EXCEPT !.next[kn + 1] = i], kl, kn + 1) : i \in (-1)..(N - 1) }
          ELSE IF r.ok THEN {r} ELSE {}
        : r \in {H(o)} }

Runs(H(_), lasts) == UNION { Explore(H, NoAnswers(last), 0, 0) : last \in lasts }

\* The handler's result becomes the next state
Becomes(r) ==
  /\ current_index' = r.idx
  /\ stop_after' = r.stop
  /\ scrobbled' = r.scrob
  /\ current_item' = r.cur
  /\ loading_async' = r.tok
  /\ stream_change_type' = r.sct
  /\ engine_state' = r.eng
  /\ pending' = r.pend
  /\ queued' = r.q
  /\ latest' = r.latest
  /\ requested' = r.req
  /\ out' = r.out
  /\ UNCHANGED <<items, volVars>>

Did(op, arg, kind, flag) == step' = [op |-> op, arg |-> arg, kind |-> kind, flag |-> flag]

\* An asynchronous load of the item at the cursor is outstanding
LoadingCurrent ==
  /\ current_index # NoIndex
  /\ loading_async = Url(current_index)
  /\ pending[Url(current_index)] > 0

InitWith(playlists) ==
  /\ items \in playlists
  /\ current_index = NoIndex
  /\ stop_after = NoIndex
  /\ scrobbled = FALSE
  /\ current_item = Null
  /\ loading_async = NoUrl
  /\ stream_change_type = "First"
  /\ volume_before_mute = DefaultVolume
  /\ engine_state = "Empty"
  /\ engine_volume = DefaultVolume
  /\ settings_volume = DefaultVolume
  /\ pending = [l \in Locators |-> 0]
  /\ queued = 0
  /\ latest = [l \in Locators |-> FALSE]
  /\ requested = [l \in Locators |-> ""]
  /\ prev_since = {}
  /\ mute_trip = [phase |-> 0, volume |-> 0]
  /\ step = [op |-> "Init", arg |-> 0, kind |-> "", flag |-> FALSE]
  /\ out = <<>>

Init == InitWith(NavPlaylists)

InitTransport == InitWith(TransportPlaylists)

\* a row is activated in the playlist view, or a remote control asks for it.
\* Without a reshuffle PlayAt differs only in keeping the scrobbled flag of a
\* track that is played again, so both are tried where the flag is set.
PlayAtOp ==
  \E index \in 0..(N - 1), change \in ChangeTypes,
     reshuffle \in IF scrobbled THEN BOOLEAN ELSE {TRUE} :
    \E r \in Runs(LAMBDA o : PlayAt(St, o, index, change, reshuffle), {NoIndex}) :
       /\ Becomes(r)
       /\ Did("PlayAt", index, change, loading_async = Url(index) /\ pending[Url(index)] > 0)
       /\ UNCHANGED prev_since

\* Player::Next
NextOp ==
  \E r \in Runs(LAMBDA o : NextInternal(St, o, "Manual"), {NoIndex}) :
       /\ Becomes(r)
       /\ Did("Next", current_index, "Manual", LoadingCurrent)
       /\ UNCHANGED prev_since

PreviousOp ==
  \E i \in (-1)..(N - 1) :
    \E r \in Runs(LAMBDA o : Previous(St, o, i), {NoIndex}) :
       /\ Becomes(r)
       /\ Did("Previous", i, "Manual", LoadingCurrent)
       /\ prev_since' = IF LoadingCurrent
                        THEN prev_since \cup {Url(current_index)}
                        ELSE prev_since

StopOp ==
  /\ \E r \in {Stop(St)} : Becomes(r)
  /\ Did("Stop", 0, "", FALSE)
  /\ UNCHANGED prev_since

\* the values last_played_index() may have when PlayPause reads it
Lasts ==
  IF engine_state \in {"Empty", "Idle"} /\ current_index = NoIndex /\ N > 0
  THEN (-1)..(N - 1) ELSE {NoIndex}

PlayPauseOp ==
  \E r \in Runs(LAMBDA o : PlayPause(St, o), Lasts) :
    /\ Becomes(r)
    /\ Did("PlayPause", current_index, engine_state, FALSE)
    /\ UNCHANGED prev_since

PauseOp ==
  /\ \E r \in {Pause(St)} : Becomes(r)
  /\ Did("Pause", 0, engine_state, FALSE)
  /\ UNCHANGED prev_since

\* the engine's track length, in milliseconds, as Seek reads it
Lengths == {0, 20000}

PlayOp ==
  \E length \in IF engine_state = "Playing" THEN Lengths ELSE {0} :
    \E r \in Runs(LAMBDA o : Play(St, o, length), Lasts) :
      /\ Becomes(r)
      /\ Did("Play", current_index, engine_state, scrobbled)
      /\ UNCHANGED prev_since

SeekOp ==
  \E seconds \in {-1, 0, 30}, length \in Lengths :
    /\ \E r \in {Seek(St, seconds, length)} : Becomes(r)
    /\ Did("Seek", seconds, "", scrobbled)
    /\ UNCHANGED prev_since

\* the largest and the smallest seconds whose product with 1000 is an int
MaxSeconds == 2147483
MinSeconds == -2147483

\* seconds at the edges of int and of the range without overflow
EdgeSeconds == { -2147483647 - 1, MinSeconds - 1, MinSeconds, -1, 0, 1, 20, 21,
                 MaxSeconds, MaxSeconds + 1, 4294968, 2147483647 }

\* track lengths in milliseconds
EdgeLengths == { 0, 20000, 2147483647 }

\* What Seek(seconds) may do.  seconds * 1000 beyond the range of int is a
\* signed overflow: the build either keeps the low 32 bits of the product, as
\* Seek computes it, or traps.
SeekOutcomes(s, seconds, length) ==
  IF seconds \in MinSeconds..MaxSeconds
  THEN { Seek(s, seconds, length) }
  ELSE { Seek(s, seconds, length), Emit(s, <<"OverflowTrap">>) }

\* Player::Seek, from the seek slider or a remote control, with any int
SeekEdgeOp ==
  \E seconds \in EdgeSeconds, length \in EdgeLengths :
    /\ \E r \in SeekOutcomes(St, seconds, length) : Becomes(r)
    /\ Did("Seek", seconds, length, scrobbled)
    /\ UNCHANGED prev_since

\* the user marks the track at the cursor, or none, to stop after
StopAfterOp ==
  \E i \in {NoIndex, current_index} :
    /\ i # stop_after
    /\ \E r \in {StopAfter(St, i)} : Becomes(r)
    /\ Did("StopAfter", i, "", FALSE)
    /\ UNCHANGED prev_since

\* the engine reaches the end of the track it plays
TrackEndedEv ==
  /\ engine_state = "Playing"
  /\ \E r \in Runs(LAMBDA o : TrackEnded([St EXCEPT !.eng = "Idle"], o), {NoIndex}) :
       /\ Becomes(r)
       /\ Did("TrackEnded", current_index, "Auto", LoadingCurrent)
       /\ UNCHANGED prev_since

\* the engine is about to reach the end of the track it plays
TrackAboutToEndEv ==
  /\ engine_state = "Playing"
  /\ \E crossfade \in BOOLEAN :
       \E r \in Runs(LAMBDA o : TrackAboutToEnd(St, o, crossfade), {NoIndex}) :
         /\ Becomes(r)
         /\ Did("TrackAboutToEnd", current_index, "Auto", crossfade)
         /\ UNCHANGED prev_since

\* the engine, while it plays, emits TrackAboutToEnd from its own thread: the
\* event waits for the control thread
EmitTrackAboutToEndEv ==
  /\ engine_state = "Playing"
  /\ queued < MaxQueued
  /\ \E r \in {[St EXCEPT !.q = @ + 1]} : Becomes(r)
  /\ Did("EmitTrackAboutToEnd", current_index, "", FALSE)
  /\ UNCHANGED prev_since

\* the control thread processes a waiting TrackAboutToEnd, whatever it has
\* run since the engine emitted the event
QueuedTrackAboutToEndEv ==
  /\ queued > 0
  /\ \E crossfade \in BOOLEAN :
       \E r \in Runs(LAMBDA o : TrackAboutToEnd([St EXCEPT !.q = @ - 1], o, crossfade),
                     {NoIndex}) :
         /\ Becomes(r)
         /\ Did("TrackAboutToEnd", current_index, "Auto", crossfade)
         /\ UNCHANGED prev_since

\* an item answers an asynchronous load: AsyncLoadFinished -> HandleSpecialLoad
DeliverEv ==
  \E url \in Locators, type \in {"NoMoreTracks", "TrackAvailable"} :
    /\ pending[url] > 0
    /\ \E r \in Runs(LAMBDA o : HandleSpecialLoad([St EXCEPT !.pend[url] = @ - 1,
                            !.latest[url] = IF pending[url] = 1 THEN FALSE ELSE @,
                            !.req[url] = IF pending[url] = 1 THEN "" ELSE @], o,
                     [type |-> type, original_url |-> url, media_url |-> Media(url)]),
                   {NoIndex}) :
         /\ Becomes(r)
         /\ Did("Deliver", url, type, url \in prev_since)
         /\ prev_since' = IF pending[url] = 1 THEN prev_since \ {url} ELSE prev_since

\* the metadata an item has before the stream sends any
Songs == { [artist |-> <<>>, title |-> <<>>], [artist |-> <<"b">>, title |-> <<"a">>] }

\* the bundles the engine sends
Bundles == [artist : {<<>>, <<"b">>}, title : Strings(MaxTitle)]

\* the engine reads metadata from the stream: MetaData -> EngineMetadataReceived
MetadataEv ==
  \E bundle \in Bundles, swap \in BOOLEAN, metadata \in Songs :
    /\ \E r \in {EngineMetadataReceived(St, bundle, swap, metadata)} : Becomes(r)
    /\ Did("Metadata", bundle, metadata, swap)
    /\ UNCHANGED prev_since

\* Player::SetVolume, from the volume slider or a remote control
SetVolumeOp ==
  \E value \in (MinVolume - VolMargin)..(MaxVolume + VolMargin) :
    \E v \in {SetVolume(Vol, value)} :
      /\ engine_volume' = v.engine
      /\ settings_volume' = v.settings
      /\ volume_before_mute' = v.before_mute
      /\ out' = v.out
      /\ Did("SetVolume", value, "", FALSE)
      /\ mute_trip' = IF value \in 1..MaxVolume
                      THEN [phase |-> 1, volume |-> value]
                      ELSE [phase |-> 0, volume |-> 0]
      /\ UNCHANGED navVars

MuteOp ==
  \E v \in {Mute(Vol)} :
    /\ engine_volume' = v.engine
    /\ settings_volume' = v.settings
    /\ volume_before_mute' = v.before_mute
    /\ out' = v.out
    /\ Did("Mute", engine_volume, "", FALSE)
    /\ mute_trip' = IF mute_trip.phase \in {1, 2}
                    THEN [mute_trip EXCEPT !.phase = @ + 1]
                    ELSE [phase |-> 0, volume |-> 0]
    /\ UNCHANGED navVars

\* Navigation and asynchronous loads
Next ==
  \/ PlayAtOp \/ NextOp \/ PreviousOp \/ StopOp
  \/ TrackEndedEv \/ TrackAboutToEndEv \/ DeliverEv

Spec == Init /\ [][Next]_vars

\* Advancing through the playlist with a row marked to stop after
NextStopAfter ==
  \/ PlayAtOp \/ StopAfterOp \/ NextOp \/ TrackEndedEv \/ TrackAboutToEndEv
  \/ DeliverEv

SpecStopAfter == Init /\ [][NextStopAfter]_vars

\* PlayAt, Next and Previous calls interleaved with deliveries of load results
NextNav == PlayAtOp \/ NextOp \/ PreviousOp \/ DeliverEv

SpecNav == Init /\ [][NextNav]_vars

\* Every operation that moves the cursor, with the engine's TrackAboutToEnd
\* marshalled onto the control thread
NextEvents ==
  \/ PlayAtOp \/ NextOp \/ PreviousOp \/ StopOp \/ PlayPauseOp
  \/ TrackEndedEv \/ EmitTrackAboutToEndEv \/ QueuedTrackAboutToEndEv \/ DeliverEv

InitEvents == InitWith(EventPlaylists)

SpecEvents == InitEvents /\ [][NextEvents]_vars

\* Transport: play, pause, seek
NextTransport ==
  \/ PlayAtOp \/ StopOp \/ PlayPauseOp \/ PauseOp \/ PlayOp \/ SeekOp \/ DeliverEv

SpecTransport == InitTransport /\ [][NextTransport]_vars

\* Volume.  The constructor calls SetVolume with the stored volume, which an
\* earlier run wrote through SetVolume.
InitVolume ==
  /\ items = <<>>
  /\ current_index = NoIndex
  /\ stop_after = NoIndex
  /\ scrobbled = FALSE
  /\ current_item = Null
  /\ loading_async = NoUrl
  /\ stream_change_type = "First"
  /\ engine_state = "Empty"
  /\ pending = [l \in Locators |-> 0]
  /\ queued = 0
  /\ latest = [l \in Locators |-> FALSE]
  /\ requested = [l \in Locators |-> ""]
  /\ prev_since = {}
  /\ mute_trip = [phase |-> 0, volume |-> 0]
  /\ step = [op |-> "Init", arg |-> 0, kind |-> "", flag |-> FALSE]
  /\ out = <<>>
  /\ volume_before_mute = DefaultVolume
  /\ \E stored \in MinVolume..MaxVolume :
       /\ settings_volume = qBound(MinVolume, stored, MaxVolume)
       /\ engine_volume = qBound(MinVolume, stored, MaxVolume)

NextVolume == SetVolumeOp \/ MuteOp

SpecVolume == InitVolume /\ [][NextVolume]_vars

\* Streams: plain items, and the metadata the engine reads from them
StreamPlaylists == { <<>>, << {} >> }

InitMetadata == InitWith(StreamPlaylists)

NextMetadata == PlayAtOp \/ StopOp \/ MetadataEv

SpecMetadata == InitMetadata /\ [][NextMetadata]_vars

\* Seeking in a stream, with any int
NextSeek == PlayAtOp \/ StopOp \/ PauseOp \/ SeekEdgeOp

SpecSeek == InitMetadata /\ [][NextSeek]_vars

----------------------------------------------------------------------------
(* What an operation did, read from out *)

Made(o, name) == \E k \in 1..Len(o) : o[k][1] = name
Count(o, name) == Cardinality({k \in 1..Len(o) : o[k][1] = name})
Plays(o) == SelectSeq(o, LAMBDA e : e[1] = "Play")
IsLoad(e) == e[1] \in {"StartLoading", "LoadNext"}
Loads(o) == SelectSeq(o, IsLoad)
Signals == {"PlaylistFinished", "TrackSkipped", "VolumeChanged"}

\* the last operation delivered the result `type` of an asynchronous load
Delivered(type) == step.op = "Deliver" /\ step.kind = type

\* the cursor is not at an item with the locator url
AwayFrom(url) == current_index = NoIndex \/ Url(current_index) # url

----------------------------------------------------------------------------
(* C1 *)

\* C1, as stated: once Previous() was called at an item whose asynchronous
\* load of locator L is pending, the delivery of TrackAvailable(L, resolved)
\* makes no engine Play call and leaves the cursor index and the current item
\* as they were.
C1_PreviousThenDeliveryNeverPlays ==
  [][ (Delivered("TrackAvailable")' /\ step'.flag)
        => /\ ~Made(out', "Play")
           /\ current_index' = current_index
           /\ current_item' = current_item ]_vars

\* C1, amended: the same, for a delivery that finds the cursor at no item or
\* at an item with another locator than L.
C1_StaleTrackAvailableIsDropped ==
  [][ (Delivered("TrackAvailable")' /\ step'.flag /\ AwayFrom(step'.arg))
        => /\ out' = <<>>
           /\ current_index' = current_index
           /\ current_item' = current_item ]_vars

C1_Witness ==
  /\ Delivered("TrackAvailable") /\ step.flag
  /\ current_index # NoIndex /\ Url(current_index) # step.arg
  /\ engine_state = "Playing"
  /\ out = <<>>

----------------------------------------------------------------------------
(* C2 *)

\* C2: the result of an asynchronous load, NoMoreTracks or TrackAvailable,
\* that is delivered when the cursor has left the item that started the load
\* is dropped: no engine Play or Stop, no signal, the cursor index and the
\* current item unchanged.
C2_StaleResultIsDropped ==
  [][ (step'.op = "Deliver" /\ AwayFrom(step'.arg))
        => /\ ~Made(out', "Play") /\ ~Made(out', "Stop")
           /\ \A name \in Signals : ~Made(out', name)
           /\ current_index' = current_index
           /\ current_item' = current_item ]_vars

----------------------------------------------------------------------------
(* C3 *)

\* PlayAt is called for the item whose asynchronous load is outstanding
RepeatedPlayAt == step.op = "PlayAt" /\ step.flag

\* NextInternal runs at the item whose asynchronous load is outstanding
RepeatedNextInternal == step.op \in {"Next", "TrackEnded"} /\ step.flag

----------------------------------------------------------------------------
(* C4 *)

\* C4: the async token is set exactly when the most recent load of the item
\* at the cursor answered WillLoadAsynchronously and has no result yet, and
\* then it is that item's locator.
C4_TokenIffCurrentItemLoading ==
  /\ loading_async # NoUrl
       <=> (current_index # NoIndex /\ latest[Url(current_index)])
  /\ loading_async # NoUrl => loading_async = Url(current_index)

----------------------------------------------------------------------------
(* C5 *)

\* the operation started an asynchronous load of the locator url
StartedAsync(o, url) ==
  \E k \in 1..Len(o) :
    IsLoad(o[k]) /\ o[k][2] = url /\ o[k][3] = "WillLoadAsynchronously"

\* C5: the delivery of a result for the locator the async token holds leaves
\* the token empty (or holding the locator of a load the delivery's own
\* advance to the next item started).
C5_DeliveryClearsToken ==
  [][ (step'.op = "Deliver" /\ loading_async = step'.arg)
        => \/ loading_async' = NoUrl
           \/ StartedAsync(out', loading_async') ]_vars

----------------------------------------------------------------------------
(* C6 *)

\* C6: no StartLoading or LoadNext is made for a locator of which an earlier
\* asynchronous load is still without a result.
C6_NoLoadWhilePending ==
  \A k \in 1..Len(out) : IsLoad(out[k]) => out[k][4] = 0

----------------------------------------------------------------------------
(* C7 *)

\* NextItem ran in the last operation and next_index() gave it no row
Exhausted(k) == out[k][1] = "NextItem" /\ out[k][3] = NoIndex

\* C7: when next_index() is -1, NextItem sets the cursor to -1, emits
\* PlaylistFinished once, calls the engine's Stop once and Play never, and
\* leaves no current item.
C7_ExhaustedPlaylistStops ==
  \A k \in 1..Len(out) :
    Exhausted(k) =>
      /\ current_index = NoIndex
      /\ current_item = Null
      /\ SubSeq(out, k + 1, Len(out)) = << <<"PlaylistFinished">>, <<"Stop">> >>
      /\ Count(out, "PlaylistFinished") = 1
      /\ Count(out, "Stop") = 1
      /\ ~Made(out, "Play")
      /\ engine_state = "Empty"

C7_Witness ==
  /\ step.op = "Next"
  /\ \E k \in 1..Len(out) : Exhausted(k)
  /\ Count(out, "Stop") = 1

----------------------------------------------------------------------------
(* C8 *)

\* min(100, max(0, v))
Clamped(v) == IF v < 0 THEN 0 ELSE IF v > 100 THEN 100 ELSE v

\* C8: SetVolume(v) leaves the persisted volume, the engine's volume and the
\* VolumeChanged signal as SetVolume(min(100, max(0, v))) would have left
\* them; the two volumes are equal and in 0..100.
C8_SetVolumeClamps ==
  [][ step'.op = "SetVolume"
        => LET c == SetVolume(Vol, Clamped(step'.arg))
           IN /\ settings_volume' = c.settings
              /\ engine_volume' = c.engine
              /\ out' = c.out
              /\ engine_volume' = settings_volume'
              /\ engine_volume' \in 0..100 ]_vars

C8_Witness ==
  /\ step.op = "SetVolume" /\ step.arg > MaxVolume
  /\ engine_volume = MaxVolume /\ settings_volume = MaxVolume
  /\ out = << <<"VolumeChanged", MaxVolume>> >>

----------------------------------------------------------------------------
(* C9 *)

\* C9: after SetVolume(v) with v in 1..100, a Mute() makes the engine's
\* volume 0 and a second Mute() makes it v again.
C9_MuteRoundTrip ==
  /\ mute_trip.phase = 1 => engine_volume = mute_trip.volume
  /\ mute_trip.phase = 2 => engine_volume = 0
  /\ mute_trip.phase = 3 => engine_volume = mute_trip.volume

C9_Witness ==
  /\ mute_trip.phase = 3 /\ mute_trip.volume = 70
  /\ step.op = "Mute" /\ step.arg = 0
  /\ engine_volume = 70

----------------------------------------------------------------------------
(* C10 *)

\* C10: after Seek(s), and after Play() while the engine is Playing, the
\* current track is marked scrobbled, whatever the mark was before.
C10_SeekMarksScrobbled ==
  (step.op = "Seek" \/ (step.op = "Play" /\ step.kind = "Playing")) => scrobbled

C10_Witness ==
  /\ step.op = "Play" /\ step.kind = "Playing" /\ ~step.flag
  /\ scrobbled
  /\ out = << <<"Seek", 0>> >>

----------------------------------------------------------------------------
(* C11 *)

\* the title of the bundle is X - Y: one separator, text on both sides of it
SplitTitle(title) ==
  LET d == indexOf(title, "-")
  IN /\ d # -1
     /\ trimmed(left(title, d)) # <<>>
     /\ trimmed(mid(title, d + 1)) # <<>>
     /\ indexOf(mid(title, d + 1), "-") = -1

\* C11: a bundle with an empty artist and the title X - Y, received at an item
\* that is not of a swap provider, is published with artist X, the trimmed
\* text before the separator, and title Y, the trimmed text after it.
C11_SplitArtistBeforeTitle ==
  (/\ step.op = "Metadata" /\ ~step.flag
   /\ current_index # NoIndex
   /\ step.arg.artist = <<>> /\ SplitTitle(step.arg.title))
  => LET d == indexOf(step.arg.title, "-")
     IN out = << <<"SetStreamMetadata", Url(current_index),
                   [artist |-> trimmed(left(step.arg.title, d)),
                    title |-> trimmed(mid(step.arg.title, d + 1))]>> >>

----------------------------------------------------------------------------
(* C12 *)

\* the last operation went through HandleSpecialLoad with the result of a
\* load it made itself
ResolvedOwnLoad ==
  \/ step.op \in {"PlayAt", "Next", "TrackEnded", "Previous"}
  \/ step.op = "TrackAboutToEnd" /\ step.flag

\* the change type the last operation recorded when it asked for the load
RecordedChange == IF step.op = "PlayAt" THEN step.kind
                  ELSE IF step.op \in {"Next", "Previous"} THEN "Manual"
                  ELSE "Auto"

\* C12: when a load answers NoMoreTracks, the resolver clears the async token
\* and advances with NextItem with the change type recorded for the load, and
\* the item it advances to is played with that change type.
C12_NoMoreTracksKeepsChangeType ==
  ResolvedOwnLoad =>
    \A k \in 1..Len(out) :
      (IsLoad(out[k]) /\ out[k][3] = "NoMoreTracks") =>
        /\ k < Len(out)
        /\ out[k + 1][1] = "NextItem" /\ out[k + 1][2] = RecordedChange
        /\ \A j \in (k + 1)..Len(out) : out[j][1] = "Play" => out[j][3] = RecordedChange
        /\ loading_async = NoUrl

----------------------------------------------------------------------------
(* C13 *)

\* C13: the delivery of TrackAvailable(original, resolved) while the item at
\* the cursor has the locator original makes the engine play resolved with the
\* change type that the PlayAt or NextInternal call recorded when it asked for
\* this load, makes that item the current item and empties the async token.
C13_DeliveryPlaysRecordedChange ==
  [][ (/\ Delivered("TrackAvailable")'
       /\ ~AwayFrom(step'.arg)
       /\ requested[step'.arg] \in ChangeTypes)
        => /\ Plays(out') = << <<"Play", Media(step'.arg), requested[step'.arg]>> >>
           /\ current_item' = current_index
           /\ loading_async' = NoUrl ]_vars

----------------------------------------------------------------------------
(* C14 *)

\* the playlist's stop-after marker is at the cursor
StopAfterPending == stop_after # NoIndex /\ stop_after = current_index

\* C14: when NextInternal or TrackEnded runs with the stop-after marker at the
\* cursor, the marker is cleared and playback stops: one engine Stop, the
\* cursor at -1, no current item, no engine Play and no item load.
C14_StopAfterStops ==
  [][ (/\ StopAfterPending
       /\ \/ step'.op \in {"Next", "TrackEnded"}
          \/ step'.op = "TrackAboutToEnd" /\ step'.flag)
        => /\ stop_after' = NoIndex
           /\ Count(out', "Stop") = 1
           /\ current_index' = NoIndex
           /\ current_item' = Null
           /\ engine_state' = "Empty"
           /\ Plays(out') = <<>> /\ Loads(out') = <<>> ]_vars

C14_Witness ==
  /\ step.op = "Next" /\ step.arg # NoIndex
  /\ out = << <<"TrackSkipped", step.arg>>, <<"Stop">> >>
  /\ stop_after = NoIndex /\ current_index = NoIndex /\ current_item = Null

----------------------------------------------------------------------------
(* C15 *)

\* the last operation made a load that answered with one of the types
Answered(o, types) == \E k \in 1..Len(o) : IsLoad(o[k]) /\ o[k][3] \in types

\* C15: without crossfade TrackAboutToEnd leaves the cursor and the current
\* item alone and makes no engine Play; it calls StartPreloading at most once,
\* and never when the current item has ContainsMultipleTracks, when
\* next_index() is -1 or when the next item's LoadNext answers NoMoreTracks or
\* WillLoadAsynchronously.
C15_PreloadNeverSwitches ==
  [][ (step'.op = "TrackAboutToEnd" /\ ~step'.flag)
        => /\ current_index' = current_index
           /\ current_item' = current_item
           /\ engine_state' = engine_state
           /\ Plays(out') = <<>>
           /\ Count(out', "StartPreloading") <= 1
           /\ (\/ "ContainsMultipleTracks" \in items[current_item + 1]
               \/ \E k \in 1..Len(out') : out'[k] = <<"next_index", NoIndex>>
               \/ Answered(out', {"NoMoreTracks", "WillLoadAsynchronously"}))
              => Count(out', "StartPreloading") = 0 ]_vars

C15_Witness ==
  /\ step.op = "TrackAboutToEnd" /\ ~step.flag
  /\ Answered(out, {"TrackAvailable"})
  /\ Count(out, "StartPreloading") = 1
  /\ engine_state = "Playing"

----------------------------------------------------------------------------
(* C16 *)

\* the row PlayPause is to start at: the cursor's, else the last played one as
\* the operation read it, else row 0
ResumeRow(o) ==
  IF current_index # NoIndex THEN current_index
  ELSE IF o # <<>> /\ o[1][1] = "last_played_index" /\ o[1][2] # NoIndex THEN o[1][2]
  ELSE 0

\* what the operation did after it read last_played_index()
AfterLastPlayed(o) ==
  IF o # <<>> /\ o[1][1] = "last_played_index" THEN Tail(o) ELSE o

----------------------------------------------------------------------------
(* C17 *)

\* C17: SetVolume(v) emits VolumeChanged(c), c being v clamped to 0..100,
\* exactly when c is not the engine's volume before the call, and nothing
\* otherwise; Mute() emits VolumeChanged only when it changes the engine's
\* volume, and then with the new volume.
C17_VolumeChangedOnlyOnChange ==
  [][ /\ step'.op = "SetVolume"
         => out' = IF Clamped(step'.arg) # engine_volume
                   THEN << <<"VolumeChanged", Clamped(step'.arg)>> >>
                   ELSE <<>>
      /\ step'.op = "Mute"
         => out' = IF engine_volume' # engine_volume
                   THEN << <<"VolumeChanged", engine_volume'>> >>
                   ELSE <<>> ]_vars

C17_Witness ==
  /\ step.op = "SetVolume" /\ step.arg > MaxVolume
  /\ engine_volume = MaxVolume
  /\ out = <<>>

----------------------------------------------------------------------------
(* C18 *)

\* min(max(seconds * 1000, 0), length) over the integers, for length >= 0
SeekTarget(seconds, length) ==
  IF seconds <= 0 THEN 0
  ELSE IF seconds > length \div 1000 THEN length
  ELSE seconds * 1000

\* C18: Seek(seconds) forwards min(max(seconds * 1000, 0), L) to the engine,
\* for every int seconds and every track length L >= 0.
C18_SeekClampsToTrack ==
  step.op = "Seek" => out = << <<"Seek", SeekTarget(step.arg, step.kind)>> >>

C20_OptionsReadersHaveItem ==
  [][ (\/ step'.op = "TrackAboutToEnd" /\ ~step'.flag
       \/ step'.op = "PlayPause" /\ engine_state = "Playing")
      => current_item # Null ]_vars

----------------------------------------------------------------------------
(* C21 *)

\* C21: PlayAt of a special-load item returns at the re-entry guard only while
\* an asynchronous load of the item's locator is outstanding: with none
\* outstanding (its result was delivered, also when it was discarded as stale)
\* the PlayAt starts a load of the item or an engine Play.
C21_GuardOnlyWhileOutstanding ==
  [][ (/\ step'.op = "PlayAt"
       /\ "SpecialPlayBehaviour" \in items[step'.arg + 1]
       /\ pending[Url(step'.arg)] = 0)
      => (Made(out', "StartLoading") \/ Made(out', "Play")) ]_vars

----------------------------------------------------------------------------
(* C22 *)

\* current_item_ has the PauseDisabled option
PauseForbidden ==
  current_item # Null /\ "PauseDisabled" \in items[current_item + 1]

\* C22: while the current item has PauseDisabled no operation tells the engine
\* to pause, and a PlayPause or Pause that finds the engine Playing stops the
\* engine or does nothing.
C22_NoPauseWhenDisabled ==
  [][ PauseForbidden
      => /\ ~Made(out', "Pause")
         /\ (step'.op \in {"PlayPause", "Pause"} /\ engine_state = "Playing")
              => out' \in { <<>>, << <<"Stop">> >> } ]_vars

----------------------------------------------------------------------------
(* C23 *)

\* C23: through every sequence of SetVolume and Mute calls since construction
\* the cached volume_before_mute_ lies in 1..100, and every Mute() changes the
\* engine's volume: from a non-zero volume to 0, or from 0 to a non-zero
\* volume.
C23_MuteAlwaysToggles ==
  [][ /\ volume_before_mute \in 1..MaxVolume
      /\ volume_before_mute' \in 1..MaxVolume
      /\ step'.op = "Mute"
         => \/ engine_volume # 0 /\ engine_volume' = 0
            \/ engine_volume = 0 /\ engine_volume' # 0 ]_vars

\* SetVolume(0), not Mute(), silenced a volume that was never cached: Mute()
\* restores the volume of the last Mute(), or the constructor's 50
C23_Witness ==
  /\ step.op = "Mute" /\ step.arg = 0
  /\ mute_trip.phase = 0
  /\ engine_volume = volume_before_mute
  /\ engine_volume \in 1..MaxVolume

====
